---- MODULE Spec2Model ----
(***************************************************************************)
(* The scene editing and history engine of the 3D editor                   *)
(* (src/src/components/ThreeDEditor.tsx, component ThreeDEditor).          *)
(*                                                                         *)
(* The component keeps its state in React state cells.  A handler created  *)
(* by useCallback reads the cells through the values captured by the       *)
(* render that created it (its closure); a functional update               *)
(* setX(prev => ...) is applied to the current cell instead.  Every event  *)
(* (click, key, input change, gizmo change, timer, file read) runs one     *)
(* handler to completion and is followed by a re-render, so the handlers   *)
(* bound in the JSX always carry the closure of the latest render, while   *)
(* a callback handed to setTimeout or to FileReader.onload keeps the       *)
(* closure of the render in which it was handed over.                      *)
(*                                                                         *)
(* Numbers are fixed point, in hundredths: 100 is 1.0 and 10 is 0.1.       *)
(***************************************************************************)
EXTENDS Integers, Sequences, FiniteSets, TLC

VARIABLES
    objects,            \* useState<SceneObject[]>([])            line 605
    selectedObjectId,   \* useState<string | null>(null)          line 606
    transformMode,      \* useState<TransformMode>('translate')   line 607
    history,            \* useState<HistoryState[]>([])           line 610
    historyIndex,       \* useState(-1)                           line 611
    timers,             \* pending setTimeout(saveToHistory, 100) callbacks, oldest first
    loads,              \* pending FileReader reads, each with its onload closure
    keyObjects,         \* the objects captured by the registered keydown handler
    generated,          \* number of generateId() calls made so far
    logged,             \* number of console.error('Failed to load scene:') calls
    nameFocused,        \* the Name input of the properties panel has the focus
    mem,                \* the cells seen as JavaScript references (see SpecRefs)
    steps               \* number of events handled so far

vars == <<objects, selectedObjectId, transformMode, history, historyIndex,
          timers, loads, keyObjects, generated, logged, nameFocused, mem, steps>>

\* The variables of the value-level view
cells == <<objects, selectedObjectId, transformMode, history, historyIndex,
           timers, loads, keyObjects, generated, logged, nameFocused, steps>>

----------------------------------------------------------------------------
(* Bounds of the exploration *)

MaxSteps == 4
CapSlack == 1
MaxRefSteps == 5

\* Program constants
HistoryCap == 50
MinScale == 10

\* The value null of selectedObjectId
Null == <<>>

AddKinds == {"box", "sphere"}

Min(a, b) == IF a < b THEN a ELSE b
Max(a, b) == IF a > b THEN a ELSE b

----------------------------------------------------------------------------
(* SceneObject *)

\* `object_${Date.now()}_${Math.random().toString(36).substr(2, 9)}`: the
\* string the n-th call returns.  The strings of different calls are taken to
\* differ (a clash needs the same millisecond and the same nine random
\* base-36 digits); the code itself never compares a new id with the old ones.
generateId(n) == <<"object", n>>

\* The ids a session can meet: its own, and the one of the scene file
FileId == <<"file", 1>>
IdPool == {generateId(n) : n \in 1..MaxSteps} \cup {FileId}

Capitalize(type) ==
    CASE type = "box" -> "Box"
      [] type = "sphere" -> "Sphere"
      [] type = "cylinder" -> "Cylinder"
      [] type = "cone" -> "Cone"

\* The object literal of addObject; a name is the sequence of its words.
NewObject(id, type, count) ==
    [id |-> id,
     type |-> type,
     position |-> <<0, 0, 0>>,
     rotation |-> <<0, 0, 0>>,
     scale |-> <<100, 100, 100>>,
     color |-> "#7855ff",
     visible |-> TRUE,
     name |-> <<Capitalize(type), ToString(count + 1)>>,
     wireframe |-> FALSE,
     opacity |-> 100,
     metalness |-> 0,
     roughness |-> 50,
     emissive |-> "#000000",
     emissiveIntensity |-> 0]

\* { ...obj, ...updates }
Merge(obj, updates) ==
    [f \in DOMAIN obj |-> IF f \in DOMAIN updates THEN updates[f] ELSE obj[f]]

\* objects.find(obj => obj.id === id): the index of the first match, 0 if none
FindIndex(objs, id) ==
    IF \E i \in 1..Len(objs) : objs[i].id = id
    THEN CHOOSE i \in 1..Len(objs) :
            /\ objs[i].id = id
            /\ \A j \in 1..(i - 1) : objs[j].id # id
    ELSE 0

\* prev.filter(obj => obj.id !== id)
RECURSIVE FilterOut(_, _)
FilterOut(objs, id) ==
    IF objs = <<>> THEN <<>>
    ELSE IF Head(objs).id = id THEN FilterOut(Tail(objs), id)
    ELSE <<Head(objs)>> \o FilterOut(Tail(objs), id)

----------------------------------------------------------------------------
(* JSON text.  A text is modelled by its tokens: a number by its sign and   *)
(* its decimal digits before and after the point, a string by its           *)
(* characters, a boolean by the literal, an array by the texts of its       *)
(* items, an object by the texts of its members.                            *)

Abs(n) == IF n < 0 THEN -n ELSE n

\* A variant of JSONNumber that writes no sign
JSONNumber_Unsigned(n) ==
    [t |-> "number", minus |-> FALSE, whole |-> Abs(n) \div 100, fraction |-> Abs(n) % 100]

\* The text of a finite number, e.g. -0.5 as "-", "0", ".50"
JSONNumber(n) ==
    [t |-> "number", minus |-> n < 0, whole |-> Abs(n) \div 100, fraction |-> Abs(n) % 100]

JSONString(str) == [t |-> "string", chars |-> str]
JSONBoolean(b) == [t |-> "literal", word |-> IF b THEN "true" ELSE "false"]
JSONArray(numbers) == [t |-> "array", items |-> [i \in 1..Len(numbers) |-> JSONNumber(numbers[i])]]

\* interface SceneObject: the type of each field
VectorFields == {"position", "rotation", "scale"}
NumberFields == {"opacity", "metalness", "roughness", "emissiveIntensity"}
BooleanFields == {"visible", "wireframe"}

\* JSON.stringify of one SceneObject
stringifyObject(obj) ==
    [f \in DOMAIN obj |->
        CASE f \in VectorFields -> JSONArray(obj[f])
          [] f \in NumberFields -> JSONNumber(obj[f])
          [] f \in BooleanFields -> JSONBoolean(obj[f])
          [] OTHER -> JSONString(obj[f])]

parseNumber(text) == (IF text.minus THEN -1 ELSE 1) * (text.whole * 100 + text.fraction)

\* JSON.parse of the text of one value
parseValue(text) ==
    CASE text.t = "number" -> parseNumber(text)
      [] text.t = "string" -> text.chars
      [] text.t = "literal" -> (text.word = "true")
      [] text.t = "array" -> [i \in 1..Len(text.items) |-> parseNumber(text.items[i])]

parseObject(text) == [f \in DOMAIN text |-> parseValue(text[f])]

\* JSON.parse(JSON.stringify(objects))
DeepCopy(objs) == [i \in 1..Len(objs) |-> parseObject(stringifyObject(objs[i]))]

----------------------------------------------------------------------------
(* React state and closures *)

\* The four cells the history callbacks read, as one record.
State(objs, sel, hist, idx) ==
    [objects |-> objs, selectedObjectId |-> sel, history |-> hist, historyIndex |-> idx]

\* The cells now; also the closure of every handler of the latest render.
Cur == State(objects, selectedObjectId, history, historyIndex)

\* The closure of the keydown handler: the effect that registers it re-runs
\* only when selectedObjectId, undo or redo change, so its objects may be old.
KeyClosure == State(keyObjects, selectedObjectId, history, historyIndex)

\* saveToHistory run with closure c while the cells (with the updates already
\* queued by the calling handler) are st.
\* The timestamp of a snapshot is written and never read; it is left out.
saveToHistory(c, st) ==
    LET newState == [objects |-> DeepCopy(c.objects),
                     selectedObjectId |-> c.selectedObjectId]
        sliced == SubSeq(c.history, 1, Min(c.historyIndex + 1, Len(c.history)))
        newHistory == Append(sliced, newState)
    IN  IF Len(newHistory) > HistoryCap
        THEN [st EXCEPT !.history = Tail(newHistory)]
        ELSE [st EXCEPT !.history = newHistory,
                        !.historyIndex = st.historyIndex + 1]

\* undo: history[historyIndex - 1] is undefined when the cursor lies more than
\* one past the end of the log, and reading prevState.objects then throws
\* before any cell is set.
undoThrows(c) == c.historyIndex > 0 /\ c.historyIndex > Len(c.history)

\* A variant of undo that installs the snapshot at the cursor itself
undo_AtCursor(c, st) ==
    IF c.historyIndex > 0 /\ c.historyIndex < Len(c.history)
    THEN LET prevState == c.history[c.historyIndex + 1]
         IN  [st EXCEPT !.objects = prevState.objects,
                        !.selectedObjectId = prevState.selectedObjectId,
                        !.historyIndex = st.historyIndex - 1]
    ELSE st

undo(c, st) ==
    IF c.historyIndex > 0 /\ ~undoThrows(c)
    THEN LET prevState == c.history[c.historyIndex]
         IN  [st EXCEPT !.objects = prevState.objects,
                        !.selectedObjectId = prevState.selectedObjectId,
                        !.historyIndex = st.historyIndex - 1]
    ELSE st

redo(c, st) ==
    IF c.historyIndex < Len(c.history) - 1
    THEN LET nextState == c.history[c.historyIndex + 2]
         IN  [st EXCEPT !.objects = nextState.objects,
                        !.selectedObjectId = nextState.selectedObjectId,
                        !.historyIndex = st.historyIndex + 1]
    ELSE st

\* A variant of addObject that numbers the name with the count itself
addObject_CountName(c, st, type, id) ==
    LET newObject == [NewObject(id, type, Len(c.objects)) EXCEPT
                         !.name = <<Capitalize(type), ToString(Len(c.objects))>>]
    IN  saveToHistory(c, [st EXCEPT !.objects = Append(@, newObject),
                                   !.selectedObjectId = newObject.id])

\* A variant of addObject that puts the new object first
addObject_Prepend(c, st, type, id) ==
    LET newObject == NewObject(id, type, Len(c.objects))
    IN  saveToHistory(c, [st EXCEPT !.objects = <<newObject>> \o @,
                                   !.selectedObjectId = newObject.id])

addObject(c, st, type, id) ==
    LET newObject == NewObject(id, type, Len(c.objects))
    IN  saveToHistory(c, [st EXCEPT !.objects = Append(@, newObject),
                                   !.selectedObjectId = newObject.id])

deleteSelectedObject(c, st) ==
    IF c.selectedObjectId # Null
    THEN saveToHistory(c, [st EXCEPT !.objects = FilterOut(@, c.selectedObjectId),
                                    !.selectedObjectId = Null])
    ELSE st

\* A variant of deleteObject that leaves the selection as it is
deleteObject_KeepsSelection(c, st, id) ==
    saveToHistory(c, [st EXCEPT !.objects = FilterOut(@, id)])

\* A variant of deleteObject that clears the selection whatever was deleted
deleteObject_ClearsSelection(c, st, id) ==
    saveToHistory(c, [st EXCEPT !.objects = FilterOut(@, id),
                               !.selectedObjectId = Null])

deleteObject(c, st, id) ==
    saveToHistory(c, [st EXCEPT !.objects = FilterOut(@, id),
                               !.selectedObjectId =
                                   IF c.selectedObjectId = id THEN Null ELSE @])

duplicateFound(c) == c.selectedObjectId # Null /\ FindIndex(c.objects, c.selectedObjectId) # 0

\* A variant of duplicateSelectedObject whose copy keeps the id of its source
duplicateSelectedObject_SameId(c, st, id) ==
    IF duplicateFound(c)
    THEN LET objectToDuplicate == c.objects[FindIndex(c.objects, c.selectedObjectId)]
             duplicatedObject ==
                 [objectToDuplicate EXCEPT
                     !.position = <<objectToDuplicate.position[1] + 100,
                                    objectToDuplicate.position[2],
                                    objectToDuplicate.position[3]>>,
                     !.name = Append(objectToDuplicate.name, "Copy")]
         IN  saveToHistory(c, [st EXCEPT !.objects = Append(@, duplicatedObject),
                                        !.selectedObjectId = duplicatedObject.id])
    ELSE st

duplicateSelectedObject(c, st, id) ==
    IF duplicateFound(c)
    THEN LET objectToDuplicate == c.objects[FindIndex(c.objects, c.selectedObjectId)]
             duplicatedObject ==
                 [objectToDuplicate EXCEPT
                     !.id = id,
                     !.position = <<objectToDuplicate.position[1] + 100,
                                    objectToDuplicate.position[2],
                                    objectToDuplicate.position[3]>>,
                     !.name = Append(objectToDuplicate.name, "Copy")]
         IN  saveToHistory(c, [st EXCEPT !.objects = Append(@, duplicatedObject),
                                        !.selectedObjectId = duplicatedObject.id])
    ELSE st

\* A variant of updateObject that commits a snapshot on every update
updateObject_Commits(st, id, updates) ==
    saveToHistory(st, [st EXCEPT !.objects =
        [i \in 1..Len(@) |-> IF @[i].id = id THEN Merge(@[i], updates) ELSE @[i]]])

\* A variant of updateObject whose map does not test the id
updateObject_AnyId(st, id, updates) ==
    [st EXCEPT !.objects = [i \in 1..Len(@) |-> Merge(@[i], updates)]]

\* updateObject has no dependencies and reads no cell: a functional update only.
updateObject(st, id, updates) ==
    [st EXCEPT !.objects =
        [i \in 1..Len(@) |-> IF @[i].id = id THEN Merge(@[i], updates) ELSE @[i]]]

clearScene(c, st) ==
    saveToHistory(c, [st EXCEPT !.objects = <<>>, !.selectedObjectId = Null])

----------------------------------------------------------------------------
(* What the panels and the gizmo hand to updateObject *)

\* parseFloat of the text of a number input: NaN, or a number (in hundredths)
NaN == [nan |-> TRUE, val |-> 0]
Num(v) == [nan |-> FALSE, val |-> v]

parseFloat(text) ==
    CASE text = "" -> NaN
      [] text = "0" -> Num(0)
      [] text = "-2" -> Num(-200)
      [] text = "0.05" -> Num(5)
      [] text = "3" -> Num(300)

\* x || d on a number: d when x is NaN or 0
OrElse(x, d) == IF x.nan \/ x.val = 0 THEN d ELSE x.val

ScaleTexts == {"", "0", "-2", "0.05", "3"}
PositionTexts == {"", "3"}
NameTexts == {<<"Hero">>}
Axes == {1, 2}

\* [...vector] with vector[index] = value
WithAxis(vector, index, value) == [vector EXCEPT ![index] = value]

\* PropertiesPanel, Scale input onChange
PanelScaleUpdate(selectedObject, index, text) ==
    [scale |-> WithAxis(selectedObject.scale, index,
                        Max(MinScale, OrElse(parseFloat(text), MinScale)))]

\* PropertiesPanel, Position input onChange
PanelPositionUpdate(selectedObject, index, text) ==
    [position |-> WithAxis(selectedObject.position, index, OrElse(parseFloat(text), 0))]

\* EditableObject, TransformControls onObjectChange: the property the gizmo
\* mode names, with the mesh's values as they are
TransformProperty(mode) ==
    CASE mode = "translate" -> "position"
      [] mode = "rotate" -> "rotation"
      [] mode = "scale" -> "scale"

\* The values a drag leaves in the mesh; a scale drag past the pivot gives
\* zero and negative components.
GizmoVectors == {<<100, 100, 100>>, <<-50, 0, 100>>}

GizmoUpdate(mode, value) ==
    CASE mode = "translate" -> [position |-> value]
      [] mode = "rotate" -> [rotation |-> value]
      [] mode = "scale" -> [scale |-> value]

\* const selectedObject = selectedObjectId ? objects.find(...) || null : null
HasSelectedObject == selectedObjectId # Null /\ FindIndex(objects, selectedObjectId) # 0
selectedObject == objects[FindIndex(objects, selectedObjectId)]

ObjectIds == {objects[i].id : i \in 1..Len(objects)}

----------------------------------------------------------------------------
(* The editor after mount: the "Initialize history" effect has run           *)
(* saveToHistory with the closure of the first render.                       *)

MountState == saveToHistory(State(<<>>, Null, <<>>, -1), State(<<>>, Null, <<>>, -1))

Init ==
    /\ objects = MountState.objects
    /\ selectedObjectId = MountState.selectedObjectId
    /\ transformMode = "translate"
    /\ history = MountState.history
    /\ historyIndex = MountState.historyIndex
    /\ timers = <<>>
    /\ loads = <<>>
    /\ keyObjects = MountState.objects
    /\ generated = 0
    /\ logged = 0
    /\ nameFocused = FALSE
    /\ mem = [heap |-> <<>>, arrays |-> <<>>,
              objects |-> MountState.objects,
              selectedObjectId |-> MountState.selectedObjectId,
              history |-> MountState.history,
              historyIndex |-> MountState.historyIndex,
              generated |-> 0, steps |-> 0]
    /\ steps = 0

\* The cells after a handler, and the re-render that follows.  The keydown
\* effect (deps [selectedObjectId, undo, redo]) re-registers the handler when
\* selectedObjectId or historyIndex changed or setHistory was called (a new
\* array each time), and then captures the objects of that render.
Render(st, setHistoryCalled) ==
    /\ objects' = st.objects
    /\ selectedObjectId' = st.selectedObjectId
    /\ history' = st.history
    /\ historyIndex' = st.historyIndex
    /\ keyObjects' = IF \/ setHistoryCalled
                        \/ st.selectedObjectId # selectedObjectId
                        \/ st.historyIndex # historyIndex
                     THEN st.objects
                     ELSE keyObjects
    /\ UNCHANGED mem

\* The focus after an event.  A click outside the Name input takes the focus
\* from it; a key, a timer or a file read leaves the focus where it is, unless
\* the properties panel is unmounted (it renders only for a selected object).
Click == nameFocused' = FALSE
Stay ==
    nameFocused' = (/\ nameFocused
                    /\ selectedObjectId' # Null
                    /\ FindIndex(objects', selectedObjectId') # 0)
ButtonOrKey == Click \/ Stay

\* Every event spends one step of the exploration
Budget == steps < MaxSteps /\ steps' = steps + 1

----------------------------------------------------------------------------
(* Events *)

\* Toolbar: onClick={() => addObject(type)}
AddObjectClick(type) ==
    /\ Render(addObject(Cur, Cur, type, generateId(generated + 1)), TRUE)
    /\ generated' = generated + 1
    /\ Click
    /\ UNCHANGED <<transformMode, timers, loads, logged>>

AddObject(type) == Budget /\ AddObjectClick(type)

\* HierarchyPanel: the trash button of a listed object
DeleteObject(id) ==
    /\ Budget
    /\ id \in ObjectIds
    /\ Render(deleteObject(Cur, Cur, id), TRUE)
    /\ Click
    /\ UNCHANGED <<transformMode, timers, loads, generated, logged>>

\* keydown Delete / Backspace
KeyDelete ==
    /\ Budget
    /\ KeyClosure.selectedObjectId # Null
    /\ Render(deleteSelectedObject(KeyClosure, Cur), TRUE)
    /\ Stay
    /\ UNCHANGED <<transformMode, timers, loads, generated, logged>>

\* keydown mod+d
KeyDuplicate ==
    /\ Budget
    /\ KeyClosure.selectedObjectId # Null
    /\ Render(duplicateSelectedObject(KeyClosure, Cur, generateId(generated + 1)),
              duplicateFound(KeyClosure))
    /\ generated' = IF duplicateFound(KeyClosure) THEN generated + 1 ELSE generated
    /\ Stay
    /\ UNCHANGED <<transformMode, timers, loads, logged>>

\* clearScene (the component defines it; no control of the page calls it)
ClearScene ==
    /\ Budget
    /\ Render(clearScene(Cur, Cur), TRUE)
    /\ Stay
    /\ UNCHANGED <<transformMode, timers, loads, generated, logged>>

\* Undo button (disabled when historyIndex <= 0) and keydown mod+z
Undo ==
    /\ Budget
    /\ Render(undo(Cur, Cur), FALSE)
    /\ ButtonOrKey
    /\ UNCHANGED <<transformMode, timers, loads, generated, logged>>

\* Redo button and keydown mod+y / mod+shift+z
Redo ==
    /\ Budget
    /\ Render(redo(Cur, Cur), FALSE)
    /\ ButtonOrKey
    /\ UNCHANGED <<transformMode, timers, loads, generated, logged>>

\* Click on a listed object or on its mesh
Select(id) ==
    /\ Budget
    /\ id \in ObjectIds
    /\ Render([Cur EXCEPT !.selectedObjectId = id], FALSE)
    /\ Click
    /\ UNCHANGED <<transformMode, timers, loads, generated, logged>>

\* Click on the empty canvas, keydown Escape
Deselect ==
    /\ Budget
    /\ Render([Cur EXCEPT !.selectedObjectId = Null], FALSE)
    /\ ButtonOrKey
    /\ UNCHANGED <<transformMode, timers, loads, generated, logged>>

\* Toolbar mode buttons, keydown g / r / s
\* A variant of SetTransformMode that also commits a snapshot
SetTransformMode_Commits(mode) ==
    /\ Budget
    /\ transformMode' = mode
    /\ Render(saveToHistory(Cur, Cur), TRUE)
    /\ ButtonOrKey
    /\ UNCHANGED <<timers, loads, generated, logged>>

SetTransformMode(mode) ==
    /\ Budget
    /\ transformMode' = mode
    /\ Render(Cur, FALSE)
    /\ ButtonOrKey
    /\ UNCHANGED <<timers, loads, generated, logged>>

PanelScaleChange(index, text) ==
    /\ Budget
    /\ HasSelectedObject
    /\ Render(updateObject(Cur, selectedObject.id,
                           PanelScaleUpdate(selectedObject, index, text)), FALSE)
    /\ Click
    /\ UNCHANGED <<transformMode, timers, loads, generated, logged>>

PanelPositionChange(index, text) ==
    /\ Budget
    /\ HasSelectedObject
    /\ Render(updateObject(Cur, selectedObject.id,
                           PanelPositionUpdate(selectedObject, index, text)), FALSE)
    /\ Click
    /\ UNCHANGED <<transformMode, timers, loads, generated, logged>>

\* A click into the Name input
FocusName ==
    /\ Budget
    /\ HasSelectedObject
    /\ Render(Cur, FALSE)
    /\ nameFocused' = TRUE
    /\ UNCHANGED <<transformMode, timers, loads, generated, logged>>

PanelNameChange(text) ==
    /\ Budget
    /\ HasSelectedObject
    /\ Render(updateObject(Cur, selectedObject.id, [name |-> text]), FALSE)
    /\ nameFocused' = TRUE
    /\ UNCHANGED <<transformMode, timers, loads, generated, logged>>

\* HierarchyPanel eye button (any listed object), PropertiesPanel Visible button
ToggleVisible(i) ==
    /\ Budget
    /\ i \in 1..Len(objects)
    /\ Render(updateObject(Cur, objects[i].id, [visible |-> ~objects[i].visible]), FALSE)
    /\ Click
    /\ UNCHANGED <<transformMode, timers, loads, generated, logged>>

\* transformObject, called by the gizmo of the selected, visible object:
\* updateObject, then setTimeout(saveToHistory, 100) with this render's
\* saveToHistory.  Nothing clears a timer.
TransformObject(value) ==
    /\ Budget
    /\ HasSelectedObject
    /\ selectedObject.visible
    /\ Render(updateObject(Cur, selectedObject.id, GizmoUpdate(transformMode, value)), FALSE)
    /\ timers' = Append(timers, Cur)
    /\ Click
    /\ UNCHANGED <<transformMode, loads, generated, logged>>

\* The oldest timer fires: saveToHistory with the closure it was created in
TimerFire ==
    /\ Budget
    /\ timers # <<>>
    /\ Render(saveToHistory(Head(timers), Cur), TRUE)
    /\ timers' = Tail(timers)
    /\ Stay
    /\ UNCHANGED <<transformMode, loads, generated, logged>>

----------------------------------------------------------------------------
(* Load: the one asynchronous boundary *)

\* The text of a chosen file, by what JSON.parse and the check
\* sceneData.objects && Array.isArray(sceneData.objects) make of it.
TextFile == [syntax |-> "invalid", objects |-> "none", array |-> <<>>]
NoObjectsFile == [syntax |-> "json", objects |-> "none", array |-> <<>>]
StringObjectsFile == [syntax |-> "json", objects |-> "string", array |-> <<>>]
SceneFile(objs) == [syntax |-> "json", objects |-> "array", array |-> objs]

\* A scene file as saveScene writes it, and one whose object has a zero scale
\* component (hand-edited, or saved after a scale drag through the pivot)
SavedObject == NewObject(FileId, "cone", 0)
FlatObject == [SavedObject EXCEPT !.scale = <<0, 100, 100>>]

Documents ==
    {TextFile, NoObjectsFile, StringObjectsFile,
     SceneFile(<<SavedObject>>), SceneFile(<<FlatObject>>)}

\* saveScene: sceneData, and JSON.stringify(sceneData, null, 2)
SceneData(objs, now) ==
    [objects |-> objs,
     metadata |-> [version |-> "1.0", created |-> now, objectCount |-> 100 * Len(objs)]]

stringifyScene(sceneData) ==
    [objects |-> [i \in 1..Len(sceneData.objects) |-> stringifyObject(sceneData.objects[i])],
     metadata |-> [version |-> JSONString(sceneData.metadata.version),
                   created |-> JSONString(sceneData.metadata.created),
                   objectCount |-> JSONNumber(sceneData.metadata.objectCount)]]

\* saveScene run with closure c at time now: the text of the downloaded file
saveScene(c, now) == stringifyScene(SceneData(c.objects, now))

\* loadScene: JSON.parse of the text of a saved scene
parseScene(text) ==
    [objects |-> [i \in 1..Len(text.objects) |-> parseObject(text.objects[i])],
     metadata |-> parseObject(text.metadata)]

\* new Date().toISOString() at the time of a save
SaveTimes == {"2024-01-01T00:00:00.000Z", "2024-01-02T00:00:00.000Z"}

\* A variant of onload that empties the scene when the document is refused
onload_EmptiesOnFailure(c, st, file) ==
    IF file.syntax = "json" /\ file.objects = "array"
    THEN saveToHistory(c, [st EXCEPT !.objects = file.array,
                                    !.selectedObjectId = Null])
    ELSE [st EXCEPT !.objects = <<>>, !.selectedObjectId = Null]

\* reader.onload with the saveToHistory of the render that started the read
onload(c, st, file) ==
    IF file.syntax = "json" /\ file.objects = "array"
    THEN saveToHistory(c, [st EXCEPT !.objects = file.array,
                                    !.selectedObjectId = Null])
    ELSE st

\* onChange of the file input: a FileReader starts reading; the input is
\* reset at once, and nothing keeps a second file from being chosen.
LoadStart(file) ==
    /\ Budget
    /\ loads' = Append(loads, [file |-> file, closure |-> Cur])
    /\ Render(Cur, FALSE)
    /\ Click
    /\ UNCHANGED <<transformMode, timers, generated, logged>>

\* A pending read completes (the readers are independent: any of them)
LoadComplete(i) ==
    /\ Budget
    /\ i \in 1..Len(loads)
    /\ Render(onload(loads[i].closure, Cur, loads[i].file),
              loads[i].file.syntax = "json" /\ loads[i].file.objects = "array")
    /\ loads' = SubSeq(loads, 1, i - 1) \o SubSeq(loads, i + 1, Len(loads))
    /\ logged' = IF loads[i].file.syntax = "invalid" THEN logged + 1 ELSE logged
    /\ Stay
    /\ UNCHANGED <<transformMode, timers, generated>>

----------------------------------------------------------------------------

Next ==
    \/ \E type \in AddKinds : AddObject(type)
    \/ KeyDelete
    \/ KeyDuplicate
    \/ \E id \in IdPool : DeleteObject(id)
    \/ ClearScene
    \/ Undo
    \/ Redo
    \/ \E id \in IdPool : Select(id)
    \/ Deselect
    \/ \E mode \in {"translate", "rotate", "scale"} : SetTransformMode(mode)
    \/ \E index \in Axes, text \in ScaleTexts : PanelScaleChange(index, text)
    \/ \E index \in Axes, text \in PositionTexts : PanelPositionChange(index, text)
    \/ FocusName
    \/ \E text \in NameTexts : PanelNameChange(text)
    \/ \E i \in 1..Len(objects) : ToggleVisible(i)
    \/ \E value \in GizmoVectors : TransformObject(value)
    \/ TimerFire
    \/ \E file \in Documents : LoadStart(file)
    \/ \E i \in 1..Len(loads) : LoadComplete(i)

Spec == Init /\ [][Next]_vars

----------------------------------------------------------------------------
(* The editor with an almost full history: Add Box is clicked until the log  *)
(* is CapSlack entries short of the cap, and the events that commit, undo    *)
(* and redo are explored from there.                                         *)

FillHistory ==
    /\ steps = 0
    /\ Len(history) < HistoryCap - CapSlack
    /\ AddObjectClick("box")
    /\ UNCHANGED steps

NearCap == steps > 0 \/ Len(history) >= HistoryCap - CapSlack

NextCap ==
    \/ FillHistory
    \/ NearCap /\ AddObject("sphere")
    \/ NearCap /\ KeyDelete
    \/ NearCap /\ ClearScene
    \/ NearCap /\ Undo
    \/ NearCap /\ Redo
    \/ NearCap /\ TransformObject(<<100, 100, 100>>)
    \/ NearCap /\ TimerFire

SpecCap == Init /\ [][NextCap]_vars

----------------------------------------------------------------------------
(* The same handlers seen as JavaScript sees them: an object and a vector   *)
(* array are references.  mem.heap holds the SceneObject objects ever        *)
(* created, mem.arrays the position / rotation / scale arrays ever created;  *)
(* an address is an index.  The objects array of the live scene and of a     *)
(* snapshot is a sequence of heap addresses, and the vector fields of a heap *)
(* object are addresses of arrays.  The handlers run with fresh closures     *)
(* here.                                                                     *)

\* The object at address a with its vectors read out
Value(m, a) ==
    [m.heap[a] EXCEPT !.position = m.arrays[@],
                      !.rotation = m.arrays[@],
                      !.scale = m.arrays[@]]

Values(m, addresses) == [i \in 1..Len(addresses) |-> Value(m, addresses[i])]

\* A new object, with new arrays, made from a value; its address is the new
\* Len(heap)
allocate(m, value) ==
    [m EXCEPT !.arrays = @ \o <<value.position, value.rotation, value.scale>>,
              !.heap = Append(@, [value EXCEPT !.position = Len(m.arrays) + 1,
                                               !.rotation = Len(m.arrays) + 2,
                                               !.scale = Len(m.arrays) + 3])]

\* JSON.parse(JSON.stringify(objects)): every object and array is new
RECURSIVE cloneAll(_, _)
cloneAll(m, addresses) ==
    IF addresses = <<>> THEN [m |-> m, out |-> <<>>]
    ELSE LET m1 == allocate(m, parseObject(stringifyObject(Value(m, Head(addresses)))))
             rest == cloneAll(m1, Tail(addresses))
         IN  [m |-> rest.m, out |-> <<Len(m1.heap)>> \o rest.out]

refSaveToHistory(c, m) ==
    LET copy == cloneAll(m, c.objects)
        newState == [objects |-> copy.out, selectedObjectId |-> c.selectedObjectId]
        sliced == SubSeq(c.history, 1, Min(c.historyIndex + 1, Len(c.history)))
        newHistory == Append(sliced, newState)
    IN  IF Len(newHistory) > HistoryCap
        THEN [copy.m EXCEPT !.history = Tail(newHistory)]
        ELSE [copy.m EXCEPT !.history = newHistory,
                            !.historyIndex = m.historyIndex + 1]

\* undo / redo: setObjects(prevState.objects) installs the snapshot's own array
refUndo(m) ==
    IF m.historyIndex > 0 /\ m.historyIndex <= Len(m.history)
    THEN [m EXCEPT !.objects = m.history[m.historyIndex].objects,
                   !.selectedObjectId = m.history[m.historyIndex].selectedObjectId,
                   !.historyIndex = @ - 1]
    ELSE m

refRedo(m) ==
    IF m.historyIndex < Len(m.history) - 1
    THEN [m EXCEPT !.objects = m.history[m.historyIndex + 2].objects,
                   !.selectedObjectId = m.history[m.historyIndex + 2].selectedObjectId,
                   !.historyIndex = @ + 1]
    ELSE m

refAddObject(m, type) ==
    LET id == generateId(m.generated + 1)
        m1 == allocate(m, NewObject(id, type, Len(m.objects)))
    IN  refSaveToHistory(m, [m1 EXCEPT !.objects = Append(@, Len(m1.heap)),
                                       !.selectedObjectId = id,
                                       !.generated = @ + 1])

\* prev.filter(obj => obj.id !== id): a new array of the same objects
RECURSIVE refFilterOut(_, _, _)
refFilterOut(m, addresses, id) ==
    IF addresses = <<>> THEN <<>>
    ELSE IF m.heap[Head(addresses)].id = id THEN refFilterOut(m, Tail(addresses), id)
    ELSE <<Head(addresses)>> \o refFilterOut(m, Tail(addresses), id)

refDeleteSelectedObject(m) ==
    IF m.selectedObjectId # Null
    THEN refSaveToHistory(m, [m EXCEPT !.objects = refFilterOut(m, @, m.selectedObjectId),
                                       !.selectedObjectId = Null])
    ELSE m

\* The index in the live array of the selected object, 0 if none
refSelected(m) ==
    IF \E i \in 1..Len(m.objects) : m.heap[m.objects[i]].id = m.selectedObjectId
    THEN CHOOSE i \in 1..Len(m.objects) : m.heap[m.objects[i]].id = m.selectedObjectId
    ELSE 0

\* { ...objectToDuplicate, id, position: [...], name }: a new object with a new
\* position array; its rotation and scale arrays are those of the source
refDuplicateSelectedObject(m) ==
    IF refSelected(m) # 0
    THEN LET source == m.heap[m.objects[refSelected(m)]]
             from == m.arrays[source.position]
             m1 == [m EXCEPT
                       !.arrays = Append(@, <<from[1] + 100, from[2], from[3]>>),
                       !.heap = Append(@, [source EXCEPT
                                              !.id = generateId(m.generated + 1),
                                              !.position = Len(m.arrays) + 1,
                                              !.name = Append(@, "Copy")])]
         IN  refSaveToHistory(m, [m1 EXCEPT
                                     !.objects = Append(@, Len(m1.heap)),
                                     !.selectedObjectId = generateId(m.generated + 1),
                                     !.generated = @ + 1])
    ELSE m

\* The one field of a field set
FieldOf(updates) == CHOOSE f \in DOMAIN updates : TRUE

\* The heap object that { ...obj, ...updates } makes of obj
refMerge(m, obj, updates) ==
    IF FieldOf(updates) \in VectorFields
    THEN [obj EXCEPT ![FieldOf(updates)] = Len(m.arrays) + 1]
    ELSE [obj EXCEPT ![FieldOf(updates)] = updates[FieldOf(updates)]]

\* The arrays after the caller made the array it hands over
refArrays(m, updates) ==
    IF FieldOf(updates) \in VectorFields
    THEN Append(m.arrays, updates[FieldOf(updates)])
    ELSE m.arrays

\* A variant of refUpdateObject that writes the fields into the object itself
refUpdateObject_InPlace(m, i, updates) ==
    [m EXCEPT !.arrays = refArrays(m, updates),
              !.heap[m.objects[i]] = refMerge(m, @, updates)]

\* prev.map(obj => obj.id === id ? { ...obj, ...updates } : obj), where the
\* object with that id is the i-th: a new array with a new object in its place
refUpdateObject(m, i, updates) ==
    [m EXCEPT !.arrays = refArrays(m, updates),
              !.heap = Append(@, refMerge(m, m.heap[m.objects[i]], updates)),
              !.objects[i] = Len(m.heap) + 1]

\* One event of the reference-level view
RefStep(next) ==
    /\ mem.steps < MaxRefSteps
    /\ mem' = [next EXCEPT !.steps = mem.steps + 1]
    /\ UNCHANGED cells

RefAddObject == RefStep(refAddObject(mem, "box"))

RefKeyDelete == mem.selectedObjectId # Null /\ RefStep(refDeleteSelectedObject(mem))

RefKeyDuplicate == refSelected(mem) # 0 /\ RefStep(refDuplicateSelectedObject(mem))

RefUndo == RefStep(refUndo(mem))

RefRedo == RefStep(refRedo(mem))

RefPanelNameChange ==
    /\ refSelected(mem) # 0
    /\ RefStep(refUpdateObject(mem, refSelected(mem), [name |-> <<"Hero">>]))

\* const newPosition = [...selectedObject.position]; newPosition[index] = ...
RefPanelPositionChange ==
    /\ refSelected(mem) # 0
    /\ RefStep(refUpdateObject(mem, refSelected(mem),
                               PanelPositionUpdate(Value(mem, mem.objects[refSelected(mem)]),
                                                   1, "3")))

\* transformObject: the gizmo hands over a new array
RefTransformObject ==
    /\ refSelected(mem) # 0
    /\ RefStep(refUpdateObject(mem, refSelected(mem),
                               GizmoUpdate("scale", <<-50, 0, 100>>)))

NextRefs ==
    \/ RefAddObject
    \/ RefKeyDelete
    \/ RefKeyDuplicate
    \/ RefUndo
    \/ RefRedo
    \/ RefPanelNameChange
    \/ RefPanelPositionChange
    \/ RefTransformObject

SpecRefs == Init /\ [][NextRefs]_vars

\* The snapshot at the cursor, when the cursor is an index of the log
CursorInLog == historyIndex >= 0 /\ historyIndex < Len(history)
AtCursor == history[historyIndex + 1]
LiveScene == [objects |-> objects, selectedObjectId |-> selectedObjectId]
Scene(st) == [objects |-> st.objects, selectedObjectId |-> st.selectedObjectId]

\* C1: in every reachable state the history cursor is a valid index into the
\* log: 0 <= cursor <= length - 1 when the log is non-empty, -1 when empty.
C1_CursorValid ==
    IF Len(history) = 0
    THEN historyIndex = -1
    ELSE historyIndex >= 0 /\ historyIndex <= Len(history) - 1

\* C2: wherever undo is possible (cursor > 0), undo followed at once by redo
\* restores the objects and selected id of the snapshot that was at the cursor
\* before the undo, and returns the cursor to its value.
C2_UndoRedoRoundTrip ==
    historyIndex > 0 =>
        LET afterUndo == undo(Cur, Cur)
            afterRedo == redo(afterUndo, afterUndo)
        IN  /\ CursorInLog
            /\ Scene(afterRedo) = AtCursor
            /\ afterRedo.historyIndex = historyIndex
            /\ afterRedo.history = history

\* A step in which saveToHistory ran
CommitStep ==
    \/ \E type \in AddKinds : AddObject(type)
    \/ \E id \in IdPool : DeleteObject(id)
    \/ KeyDelete
    \/ duplicateFound(KeyClosure) /\ KeyDuplicate
    \/ ClearScene
    \/ TimerFire
    \/ \E i \in 1..Len(loads) :
           /\ loads[i].file.syntax = "json" /\ loads[i].file.objects = "array"
           /\ LoadComplete(i)

\* C3: the log never holds more than the cap of snapshots, and a commit made
\* with the cursor at the last entry (commits in sequence) leaves the log one
\* longer or, at the cap, still at the cap with the oldest entry evicted and
\* the others kept in order, and leaves the cursor at the last index.
C3_CapEviction ==
    [][/\ Len(history') <= HistoryCap
       /\ (CommitStep /\ historyIndex = Len(history) - 1) =>
              /\ Len(history') = Min(Len(history) + 1, HistoryCap)
              /\ SubSeq(history', 1, Len(history') - 1) =
                     (IF Len(history) = HistoryCap THEN Tail(history) ELSE history)
              /\ historyIndex' = Len(history') - 1]_vars

\* C4: a commit made while the cursor is before the last log entry removes
\* every snapshot beyond the cursor and appends the new one: right after it
\* the new snapshot is the last entry, the cursor points at it, and there is
\* nothing to redo.
C4_BranchDiscarding ==
    [][(CommitStep /\ CursorInLog /\ historyIndex < Len(history) - 1) =>
          /\ Len(history') = historyIndex + 2
          /\ SubSeq(history', 1, historyIndex + 1) = SubSeq(history, 1, historyIndex + 1)
          /\ historyIndex' = Len(history') - 1]_vars

\* The updateObject calls the properties panel offers on the selected object
PanelUpdates ==
    IF HasSelectedObject
    THEN {PanelScaleUpdate(selectedObject, index, text) : index \in Axes, text \in ScaleTexts}
         \cup {PanelPositionUpdate(selectedObject, index, text) :
                   index \in Axes, text \in PositionTexts}
         \cup {[name |-> text] : text \in NameTexts}
         \cup {[visible |-> ~selectedObject.visible]}
    ELSE {}

\* The history is committed at the live scene: the snapshot at the cursor is it
CommittedAtLive == CursorInLog /\ AtCursor = LiveScene

\* C5 as claimed: history committed at scene A, the scene mutated to B by
\* update without a commit, then undo: the live scene is A again.
C5_UndoRestoresCommittedScene ==
    CommittedAtLive =>
        \A u \in PanelUpdates :
            LET B == updateObject(Cur, selectedObject.id, u)
            IN  B.objects # objects => Scene(undo(B, B)) = LiveScene

\* C5 amended: history committed at scene A with the cursor > 0, the scene
\* mutated to B by update without a commit, then undo: the live scene is the
\* snapshot just before the cursor, the one committed before A; B is dropped.
C5_UndoInstallsPreviousSnapshot ==
    (CommittedAtLive /\ historyIndex > 0) =>
        \A u \in PanelUpdates :
            LET B == updateObject(Cur, selectedObject.id, u)
                after == undo(B, B)
            IN  B.objects # objects =>
                    /\ Scene(after) = history[historyIndex]
                    /\ after.historyIndex = historyIndex - 1
                    /\ after.history = history

C5_Witness ==
    /\ CommittedAtLive
    /\ historyIndex > 0
    /\ \E u \in PanelUpdates : updateObject(Cur, selectedObject.id, u).objects # objects
    /\ history[historyIndex] # LiveScene

\* C6: undo applies exactly when cursor > 0, redo exactly when cursor < last
\* index; each moves the cursor one step, to an index of the log, and installs
\* the snapshot there as the live objects and selection; otherwise they leave
\* objects, selection, log and cursor as they are.
C6_UndoRedoOneStep ==
    /\ LET after == undo(Cur, Cur)
       IN  IF historyIndex > 0
           THEN /\ after.historyIndex = historyIndex - 1
                /\ after.historyIndex < Len(history)
                /\ Scene(after) = history[after.historyIndex + 1]
                /\ after.history = history
           ELSE after = Cur
    /\ LET after == redo(Cur, Cur)
       IN  IF historyIndex < Len(history) - 1
           THEN /\ after.historyIndex = historyIndex + 1
                /\ Scene(after) = history[after.historyIndex + 1]
                /\ after.history = history
           ELSE after = Cur

\* C7: a new transform delta cancels the pending commit before it schedules
\* its own, so at most one deferred commit is pending and a burst of deltas
\* ends in one commit.
C7_OnePendingCommit == Len(timers) <= 1

\* The field sets the editor hands to updateObject
UpdateInputs ==
    {[scale |-> v] : v \in GizmoVectors} \cup {[position |-> v] : v \in GizmoVectors}
    \cup {[rotation |-> v] : v \in GizmoVectors}
    \cup {[name |-> text] : text \in NameTexts}
    \cup {[visible |-> b] : b \in BOOLEAN}

\* C8: update(id, fields) creates no history entry: for every id and every
\* field set it leaves the history log, the cursor and the selection as they are.
C8_UpdateKeepsHistory ==
    \A id \in IdPool, u \in UpdateInputs \cup PanelUpdates :
        LET after == updateObject(Cur, id, u)
        IN  /\ after.history = history
            /\ after.historyIndex = historyIndex
            /\ after.selectedObjectId = selectedObjectId

\* An update has acted on the selected object and the log still holds only
\* the entries of the mount and of the add.
C8_Witness ==
    /\ HasSelectedObject
    /\ selectedObject.name = <<"Hero">>
    /\ Len(history) = 2
    /\ historyIndex = 1
    /\ \A k \in 1..Len(history) : history[k].objects = <<>>

\* C9: no two objects of the live collection share an id.
C9_UniqueIds ==
    \A i, j \in 1..Len(objects) : i # j => objects[i].id # objects[j].id

\* The scene holds an added object, a duplicate of it, and a later addition
\* made after a deletion
C9_Witness ==
    /\ Len(objects) >= 2
    /\ \E i \in 1..Len(objects) : objects[i].name[Len(objects[i].name)] = "Copy"
    /\ generated > Len(objects)

\* The updateObject calls that carry a scale: the panel's Scale inputs and,
\* in scale mode, the gizmo of the selected visible object
ScaleUpdates ==
    IF HasSelectedObject
    THEN {PanelScaleUpdate(selectedObject, index, text) : index \in Axes, text \in ScaleTexts}
         \cup (IF transformMode = "scale" /\ selectedObject.visible
               THEN {GizmoUpdate(transformMode, value) : value \in GizmoVectors}
               ELSE {})
    ELSE {}

\* C10: after an update that carries a scale, every scale component stored
\* for the object is at least the minimum 0.1; none is stored as <= 0.
C10_UpdateClampsScale ==
    \A u \in ScaleUpdates :
        LET after == updateObject(Cur, selectedObject.id, u)
        IN  \A i \in 1..Len(after.objects) :
                after.objects[i].id = selectedObject.id =>
                    \A axis \in 1..3 : after.objects[i].scale[axis] >= MinScale

\* C11: in every reachable state every scale component of every object of the
\* scene is at least the minimum 0.1, whichever path wrote it.
C11_ScaleAtLeastMin ==
    \A i \in 1..Len(objects) : \A axis \in 1..3 : objects[i].scale[axis] >= MinScale

\* The words of the name "<Kind> <n>"
KindName(type, n) ==
    <<(CASE type = "box" -> "Box" [] type = "sphere" -> "Sphere"), ToString(n)>>

\* C12: add(kind) appends exactly one object with position (0,0,0), rotation
\* (0,0,0), scale (1,1,1), the default material, visible, and the name
\* "<Kind> <N>" with N the object count before the add plus one; it leaves the
\* existing objects as they are and selects the new object.
C12_AddAppendsDefault ==
    [][\A type \in AddKinds :
          AddObject(type) =>
              /\ Len(objects') = Len(objects) + 1
              /\ SubSeq(objects', 1, Len(objects)) = objects
              /\ LET new == objects'[Len(objects')]
                 IN  /\ new.type = type
                     /\ new.position = <<0, 0, 0>>
                     /\ new.rotation = <<0, 0, 0>>
                     /\ new.scale = <<100, 100, 100>>
                     /\ new.visible = TRUE
                     /\ new.name = KindName(type, Len(objects) + 1)
                     /\ new.color = "#7855ff" /\ new.wireframe = FALSE
                     /\ new.opacity = 100 /\ new.metalness = 0
                     /\ new.roughness = 50
                     /\ new.emissive = "#000000" /\ new.emissiveIntensity = 0
                     /\ selectedObjectId' = new.id]_vars

\* From the empty scene add(box) and add(sphere) were made: "Box 1", then
\* "Sphere 2", which is the selection.
C12_Witness ==
    /\ Len(objects) = 2
    /\ objects[1].name = <<"Box", "1">>
    /\ objects[2].name = <<"Sphere", "2">>
    /\ selectedObjectId = objects[2].id

\* objs without its k-th element
Without(objs, k) == SubSeq(objs, 1, k - 1) \o SubSeq(objs, k + 1, Len(objs))

\* C13: delete(id) removes exactly the object with that id and keeps the
\* others in order; the selection becomes none if the deleted object was the
\* selection and is unchanged otherwise.
C13_DeleteRemovesOne ==
    [][/\ \A id \in IdPool :
              DeleteObject(id) =>
                  /\ \E k \in 1..Len(objects) :
                         objects[k].id = id /\ objects' = Without(objects, k)
                  /\ selectedObjectId' =
                         IF selectedObjectId = id THEN Null ELSE selectedObjectId
       /\ (KeyDelete /\ HasSelectedObject) =>
              /\ \E k \in 1..Len(objects) :
                     objects[k].id = selectedObjectId /\ objects' = Without(objects, k)
              /\ selectedObjectId' = Null]_vars

\* Two objects were added and the first, not selected, was deleted: the
\* second is left and is still the selection.
C13_Witness ==
    /\ generated = 2
    /\ Len(objects) = 1
    /\ objects[1].id = generateId(2)
    /\ selectedObjectId = generateId(2)
    /\ Len(history) = 4

\* C14: update, delete and duplicate on an id that is not in the scene leave
\* the object collection (contents and order) and the selection exactly as
\* they were.
C14_MissingIdNoOp ==
    \A id \in IdPool \ ObjectIds :
        /\ \A u \in UpdateInputs : Scene(updateObject(Cur, id, u)) = LiveScene
        /\ Scene(deleteObject(Cur, Cur, id)) = LiveScene
        /\ Scene(duplicateSelectedObject([Cur EXCEPT !.selectedObjectId = id], Cur,
                                         generateId(generated + 1))) = LiveScene

\* The scene holds a selected object, and an id that was in the scene is gone
C14_Witness ==
    /\ HasSelectedObject
    /\ \E n \in 1..generated : generateId(n) \notin ObjectIds

\* C15: duplicate of an existing object appends one object with a fresh id,
\* the source's name followed by "Copy", the source's position moved by one
\* unit on x, and every other field equal to the source's current value; the
\* objects already in the scene, the source among them, are unchanged.
C15_DuplicateCopiesCurrent ==
    [][(KeyDuplicate /\ HasSelectedObject) =>
          /\ Len(objects') = Len(objects) + 1
          /\ SubSeq(objects', 1, Len(objects)) = objects
          /\ LET copy == objects'[Len(objects')]
                 source == selectedObject
             IN  /\ copy.id \notin ObjectIds
                 /\ copy = [source EXCEPT
                                !.id = copy.id,
                                !.name = Append(source.name, "Copy"),
                                !.position = <<source.position[1] + 100,
                                               source.position[2],
                                               source.position[3]>>]]_vars

Malformed(file) == ~(file.syntax = "json" /\ file.objects = "array")

\* C17: the completion of a load of a document that has no array at objects
\* (unparsable text, objects missing, objects a string) leaves the object
\* collection, the selection, the history log and the cursor as they were.
C17_MalformedLoadKeepsStore ==
    [][\A i \in 1..Len(loads) :
          (LoadComplete(i) /\ Malformed(loads[i].file)) =>
              UNCHANGED <<objects, selectedObjectId, history, historyIndex>>]_vars

\* The read of an unparsable file has completed, and the scene holds an object
C17_Witness ==
    /\ logged = 1
    /\ loads = <<>>
    /\ Len(objects) = 1
    /\ Len(history) = 2

\* C18: the completion of a load of a document with an array at objects
\* replaces the object collection by the document's objects, clears the
\* selection and commits one history entry: the last entry of the log is then
\* the loaded state (the loaded objects, no selection) and the cursor is on it.
C18_LoadCommitsLoadedState ==
    [][\A i \in 1..Len(loads) :
          (LoadComplete(i) /\ ~Malformed(loads[i].file)) =>
              /\ objects' = loads[i].file.array
              /\ selectedObjectId' = Null
              /\ historyIndex' = Len(history') - 1
              /\ history'[Len(history')] =
                     [objects |-> loads[i].file.array, selectedObjectId |-> Null]]_vars

\* A keydown the handler has a case for: Delete / Backspace, mod+d, mod+z,
\* mod+y, Escape, g / r / s
KeyDown ==
    /\ \/ KeyDelete
       \/ KeyDuplicate
       \/ Undo
       \/ Redo
       \/ Deselect
       \/ \E mode \in {"translate", "rotate", "scale"} : SetTransformMode(mode)
    /\ Stay

\* C19: a keydown that occurs while the Name input has the focus changes
\* neither the object collection, the selection, the transform mode nor the
\* history.
C19_ShortcutsSuppressedInInput ==
    [][(nameFocused /\ KeyDown) =>
          UNCHANGED <<objects, selectedObjectId, transformMode, history, historyIndex>>]_vars

\* C20: at most one file read started by load is pending at any time.
C20_OnePendingLoad == Len(loads) <= 1

\* The indices of the log
LogIndices == 0..(Len(history) - 1)

\* C21: no core operation raises; in particular, whenever undo or redo passes
\* its guard, the log entry it reads (cursor - 1 or cursor + 1) exists.
C21_OperationsTotal ==
    /\ ~undoThrows(Cur)
    /\ historyIndex > 0 => (historyIndex - 1) \in LogIndices
    /\ historyIndex < Len(history) - 1 => (historyIndex + 1) \in LogIndices

\* What a snapshot records: its objects read out of the heap, and its selection
Recorded(m, k) ==
    [objects |-> Values(m, m.history[k].objects),
     selectedObjectId |-> m.history[k].selectedObjectId]

\* C22: a snapshot that stays in the log records the same objects and the same
\* selected id after any event as before it, also when undo or redo made the
\* snapshot's objects the live ones and the live scene was edited afterwards.
C22_SnapshotsImmutable ==
    [][\A k \in 1..Len(mem.history) :
          (k <= Len(mem'.history) /\ mem'.history[k] = mem.history[k]) =>
              Recorded(mem', k) = Recorded(mem, k)]_vars

\* Undo or redo made the objects of a snapshot the live ones, and an update
\* has since replaced one of them in the live scene: the live object differs
\* from the snapshot's but still has the snapshot's rotation array.
C22_Witness ==
    \E k \in 1..Len(mem.history) :
        \E i \in 1..Len(mem.objects) :
            /\ i <= Len(mem.history[k].objects)
            /\ mem.objects[i] # mem.history[k].objects[i]
            /\ mem.heap[mem.objects[i]].rotation = mem.heap[mem.history[k].objects[i]].rotation
            /\ Value(mem, mem.objects[i]) # Value(mem, mem.history[k].objects[i])

\* The objects of the live scene and of the snapshots that an add of this
\* session made and that still carry their generated name
AddedObjects ==
    {o \in {objects[i] : i \in 1..Len(objects)}
            \cup UNION {{history[k].objects[i] : i \in 1..Len(history[k].objects)} :
                            k \in 1..Len(history)} :
        o.id[1] = "object" /\ Len(o.name) = 2}

\* C23: the number in a generated name "<Kind> <N>" is not reused after a
\* deletion: no add gives its object a number that an earlier add of the
\* session gave to an object, be that object still in the scene or deleted.
C23_NameNumberNotReused ==
    [][\A type \in AddKinds :
          AddObject(type) =>
              \A o \in AddedObjects : o.name[2] # objects'[Len(objects')].name[2]]_vars

\* The ids of a collection, in its order
Ids(objs) == [i \in 1..Len(objs) |-> objs[i].id]

\* The items of a sequence that are in a set, in the order of the sequence
Restrict(seq, S) == SelectSeq(seq, LAMBDA x : x \in S)

\* The events that add, duplicate, update, delete or transform
Appends == (\E type \in AddKinds : AddObject(type)) \/ KeyDuplicate

Deletes == (\E id \in IdPool : DeleteObject(id)) \/ KeyDelete

Updates ==
    \/ \E index \in Axes, text \in ScaleTexts : PanelScaleChange(index, text)
    \/ \E index \in Axes, text \in PositionTexts : PanelPositionChange(index, text)
    \/ \E text \in NameTexts : PanelNameChange(text)
    \/ \E i \in 1..Len(objects) : ToggleVisible(i)
    \/ \E value \in GizmoVectors : TransformObject(value)

\* C24: the collection is kept in insertion order: add and duplicate leave the
\* objects there as they are and put the new one last; update and transform
\* keep every object at its place; delete keeps the remaining objects in the
\* order they had.
C24_InsertionOrder ==
    [][/\ Appends =>
              /\ Len(objects') \in {Len(objects), Len(objects) + 1}
              /\ SubSeq(objects', 1, Len(objects)) = objects
       /\ Updates => Ids(objects') = Ids(objects)
       /\ Deletes =>
              Ids(objects') = Restrict(Ids(objects), {objects'[i].id : i \in 1..Len(objects')})]_vars

\* Three objects were made and the second was deleted: the first and the
\* third are left, in that order.
C24_Witness ==
    /\ generated = 3
    /\ Len(history) = 5
    /\ Ids(objects) = <<generateId(1), generateId(3)>>

\* The transform modes
TransformModes == {"translate", "rotate", "scale"}

\* C25: setTransformMode(mode), from the toolbar or from the g / r / s keys,
\* sets the transform mode to the given one of translate, rotate and scale and
\* leaves the object collection, the selection, the history log and the cursor
\* as they are, whether an object is selected or not.
C25_ModeChangesOnlyMode ==
    [][\A mode \in TransformModes :
          SetTransformMode(mode) =>
              /\ transformMode' = mode
              /\ transformMode' \in TransformModes
              /\ UNCHANGED <<objects, selectedObjectId, history, historyIndex>>]_vars

\* The mode was set while the scene held an object and nothing was selected
C25_Witness ==
    /\ transformMode = "rotate"
    /\ Len(objects) = 1
    /\ selectedObjectId = Null
    /\ Len(history) = 2

\* The events that commit: add, delete, duplicate (of a source it finds), clear
Commits ==
    \/ \E type \in AddKinds : AddObject(type)
    \/ Deletes
    \/ (KeyDuplicate /\ duplicateFound(KeyClosure))
    \/ ClearScene

\* C26: right after a committing operation (add, delete, duplicate, clear) the
\* snapshot at the history cursor is the live scene the operation produced:
\* the same objects and the same selected id.
C26_CommitRecordsLiveScene ==
    [][Commits =>
          /\ historyIndex' >= 0 /\ historyIndex' < Len(history')
          /\ history'[historyIndex' + 1].objects = objects'
          /\ history'[historyIndex' + 1].selectedObjectId = selectedObjectId']_vars

\* The freshly mounted editor on which only add, delete and duplicate act
NextCommits ==
    \/ \E type \in AddKinds : AddObject(type)
    \/ \E id \in IdPool : DeleteObject(id)
    \/ KeyDelete
    \/ KeyDuplicate

SpecCommits == Init /\ [][NextCommits]_vars

\* C27: undo reverts exactly one action: after a run of add / delete /
\* duplicate from the mounted editor whose last operation made the live scene
\* S(n) out of S(n-1), an undo makes the live scene S(n-1) and a redo after it
\* makes the live scene S(n) again.
C27_UndoRevertsOneAction ==
    [][LET after == State(objects', selectedObjectId', history', historyIndex')
           afterUndo == undo(after, after)
           afterRedo == redo(afterUndo, afterUndo)
       IN  /\ Scene(afterUndo) = LiveScene
           /\ Scene(afterRedo) = Scene(after)]_vars

\* A selection is none or the id of one of the objects
SelectionValid(sel, objs) ==
    sel = Null \/ \E i \in 1..Len(objs) : objs[i].id = sel

\* C28: in every reachable state the selection is none or the id of an object
\* of the live collection, and the selected id of every stored snapshot is
\* none or the id of one of the snapshot's own objects.
C28_SelectionValid ==
    /\ SelectionValid(selectedObjectId, objects)
    /\ \A k \in 1..Len(history) :
           SelectionValid(history[k].selectedObjectId, history[k].objects)

\* The selected object was deleted from a scene of two: the selection is none,
\* and a snapshot records the two objects with the deleted one selected.
C28_Witness ==
    /\ selectedObjectId = Null
    /\ Len(objects) = 1
    /\ \E k \in 1..Len(history) :
           /\ Len(history[k].objects) = 2
           /\ history[k].selectedObjectId # Null
           /\ history[k].selectedObjectId # objects[1].id

\* C29: the snapshot written by the deferred commit of a gizmo drag records
\* the scene as it is after the last delta of the drag.  Stated for a drag of
\* one delta whose timer fires next: transformObject runs updateObject and
\* hands saveToHistory of its render to the timer, and the timer runs it.
C29_DeferredCommitRecordsDrag ==
    (HasSelectedObject /\ selectedObject.visible) =>
        \A value \in GizmoVectors :
            LET dragged == updateObject(Cur, selectedObject.id,
                                        GizmoUpdate(transformMode, value))
                fired == saveToHistory(Cur, dragged)
            IN  fired.history[Len(fired.history)].objects = dragged.objects

\* An edit in the properties panel (or the eye button of the hierarchy)
PanelEdit ==
    \/ \E index \in Axes, text \in ScaleTexts : PanelScaleChange(index, text)
    \/ \E index \in Axes, text \in PositionTexts : PanelPositionChange(index, text)
    \/ \E text \in NameTexts : PanelNameChange(text)
    \/ \E i \in 1..Len(objects) : ToggleVisible(i)

\* C30: after an update edit, mod+s saves and mod+d duplicates the scene as
\* it is at the key press: the document the key handler's saveScene writes is
\* the document of the current objects, and the duplicate its
\* duplicateSelectedObject makes is the duplicate of the current object.
C30_KeyboardUsesCurrentScene ==
    [][PanelEdit =>
          LET key == State(keyObjects', selectedObjectId', history', historyIndex')
              now == State(objects', selectedObjectId', history', historyIndex')
          IN  /\ \A time \in SaveTimes : saveScene(key, time) = saveScene(now, time)
              /\ Scene(duplicateSelectedObject(key, now, generateId(generated' + 1)))
                     = Scene(duplicateSelectedObject(now, now, generateId(generated' + 1)))]_vars

====
